---- MODULE Spec2Model ----
(***************************************************************************)
(* Model of the Reverse Dictionary of Feelings (src/app.py): the Streamlit *)
(* script (session bootstrap + main), the word request generate_word, the  *)
(* result rendering, and the static language tables with                   *)
(* get_suggested_pairs.                                                    *)
(*                                                                         *)
(* A Streamlit script is re-executed from the top on every user            *)
(* interaction, so every action below is one complete run of the script:   *)
(* the bootstrap of lines 8-10 followed by main().  Widget values persist  *)
(* between runs; the button is True only in the run its click triggered.   *)
(***************************************************************************)
EXTENDS Integers, Sequences, FiniteSets, TLC

\* ------------------------------------------------------------------ bounds
\* longest emotion description typed into the text area
MaxLen == 2
\* the user picks among the first MaxPick options of the multiselect
MaxPick == 2
\* longest `examples` array in an external reply
MaxExamples == 3

\* ----------------------------------------------------------- static tables
\* WORD_SCHEMA["parameters"]["required"]
WORD_SCHEMA_required == {"word", "pronunciation", "definition", "etymology", "examples"}

\* LANGUAGE_OPTIONS: category -> (language -> hint), both in insertion order
LANGUAGE_OPTIONS ==
  << [category |-> "Ancient Languages",
      langs |-> << "Latin", "Ancient Greek", "Sanskrit" >>],
     [category |-> "Modern Languages",
      langs |-> << "German", "Japanese", "Arabic", "Mandarin" >>],
     [category |-> "Historical Languages",
      langs |-> << "Old English", "Old Norse", "Classical Persian" >>],
     [category |-> "Fictional Languages",
      langs |-> << "Elvish (Quenya/Sindarin)", "Klingon" >>] >>

\* COMPLEMENTARY_PAIRS: (lang, lang) -> description, in insertion order
COMPLEMENTARY_PAIRS ==
  << [pair |-> <<"Latin", "Japanese">>,
      description |-> "Precision meets emotion - great for technical feelings"],
     [pair |-> <<"Ancient Greek", "Old Norse">>,
      description |-> "Philosophical depth with mythological power"],
     [pair |-> <<"Sanskrit", "Elvish">>,
      description |-> "Spiritual depth meets natural harmony"],
     [pair |-> <<"German", "Arabic">>,
      description |-> "Structural precision meets poetic flow"],
     [pair |-> <<"Old English", "Classical Persian">>,
      description |-> "Earthiness meets mystical beauty"],
     [pair |-> <<"Mandarin", "Klingon">>,
      description |-> "Subtle tones meet warrior directness"],
     [pair |-> <<"Latin", "German">>,
      description |-> "Classical precision with modern compound power"],
     [pair |-> <<"Japanese", "Elvish">>,
      description |-> "Emotional subtlety with ethereal beauty"],
     [pair |-> <<"Sanskrit", "Old Norse">>,
      description |-> "Ancient wisdom meets primal force"],
     [pair |-> <<"Arabic", "Classical Persian">>,
      description |-> "Rich poetic traditions combined"],
     [pair |-> <<"Ancient Greek", "Elvish">>,
      description |-> "Philosophical concepts with mythical elegance"],
     [pair |-> <<"Old English", "Klingon">>,
      description |-> "Germanic strength meets warrior culture"] >>

\* ------------------------------------------------------------ pure helpers
RECURSIVE flatten_from(_, _)
flatten_from(options, k) ==
  IF k > Len(options) THEN << >>
  ELSE options[k].langs \o flatten_from(options, k + 1)

\* mutation of all_languages: the in-category loop restarts at the first
\* category, so every category contributes the first category's languages
all_languages_first_category ==
  LET RECURSIVE rep(_)
      rep(k) == IF k > Len(LANGUAGE_OPTIONS) THEN << >>
                ELSE LANGUAGE_OPTIONS[1].langs \o rep(k + 1)
  IN rep(1)

\* [lang for langs in LANGUAGE_OPTIONS.values() for lang in langs.keys()]
all_languages == flatten_from(LANGUAGE_OPTIONS, 1)

\* str.isspace on one character
is_space(c) == c \in {" ", "\t", "\n"}

\* str.lstrip / str.rstrip / str.strip on a string held as a sequence of
\* one-character strings
RECURSIVE lstrip(_)
lstrip(s) ==
  IF s # << >> /\ is_space(Head(s)) THEN lstrip(Tail(s)) ELSE s

RECURSIVE rstrip(_)
rstrip(s) ==
  IF s # << >> /\ is_space(s[Len(s)]) THEN rstrip(SubSeq(s, 1, Len(s) - 1)) ELSE s

strip(s) == rstrip(lstrip(s))

\* ", ".join(languages)
RECURSIVE join(_)
join(languages) ==
  IF languages = << >> THEN ""
  ELSE IF Len(languages) = 1 THEN languages[1]
  ELSE languages[1] \o ", " \o join(Tail(languages))

\* ------------------------------------------------------- rendered elements
\* one Streamlit element of the page: kind is the st.* call, a and b its
\* interpolated texts, n an interpolated number
El(kind, a, b, n) == [kind |-> kind, a |-> a, b |-> b, n |-> n]

MSG_NO_KEY == "Please set the OPENAI_API_KEY in your environment or Streamlit secrets."
MSG_NO_EMOTION == "Please describe an emotion!"
MSG_NO_LANGUAGE == "Please select at least one language!"
MSG_GENERATE == "Error generating word: "

\* ------------------------------------------------- the external collaborator
\* Python None as the value of generate_word
None == [isNone |-> TRUE, keys |-> {}, word |-> "", pronunciation |-> "",
         definition |-> "", etymology |-> "", examples |-> << >>]

ExampleText(i) == << "ex A", "ex B", "ex C", "ex D", "ex E" >>[i]

\* a JSON object parsed from the function-call arguments: keys is the set of
\* fields present, a field that is absent carries no value
Payload(keys, n) ==
  [isNone |-> FALSE, keys |-> keys,
   word |-> IF "word" \in keys THEN "Gemeinchara" ELSE "",
   pronunciation |-> IF "pronunciation" \in keys THEN "g@'maIn,ka:r@" ELSE "",
   definition |-> IF "definition" \in keys
                  THEN "The specific delight of uncovering something together." ELSE "",
   etymology |-> IF "etymology" \in keys
                 THEN "German 'gemein' (shared) + Greek 'chara' (joy)" ELSE "",
   examples |-> IF "examples" \in keys THEN [i \in 1..n |-> ExampleText(i)] ELSE << >>]

\* every object the parser can hand back: JsonOutputFunctionsParser decodes
\* the JSON and does not check it against WORD_SCHEMA
Payloads ==
  { Payload(keys, n) : keys \in SUBSET WORD_SCHEMA_required, n \in 0..MaxExamples }

\* exceptions chain.invoke can raise
InvokeExceptions == {"AuthenticationError", "APIConnectionError", "OutputParserException"}

NoReply == [kind |-> "none", payload |-> None]
Raised(e) == [kind |-> e, payload |-> None]
Returned(p) == [kind |-> "payload", payload |-> p]

\* credentials the external service accepts
ValidKeys == {"sk-valid"}

\* what chain.invoke can do for a given credential
Replies(api_key) ==
  IF api_key \in ValidKeys
  THEN { Raised("APIConnectionError"), Raised("OutputParserException") }
         \cup { Returned(p) : p \in Payloads }
  ELSE { Raised("AuthenticationError"), Raised("APIConnectionError") }

\* the request chain.invoke sends
Request(user_input, languages) == [input |-> user_input, languages |-> join(languages)]

\* ------------------------------------------------------------ generate_word
\* mutation: the except branch swallows the exception without st.error
generate_word_silent(user_input, languages, reply) ==
  IF reply.kind \in InvokeExceptions
  THEN [result |-> None, elems |-> << >>,
        outbound |-> << Request(user_input, languages) >>]
  ELSE [result |-> reply.payload, elems |-> << >>,
        outbound |-> << Request(user_input, languages) >>]

\* mutation: a failed invoke is attempted a second time
generate_word_retry(user_input, languages, reply) ==
  IF reply.kind \in InvokeExceptions
  THEN [result |-> None, elems |-> << El("error", MSG_GENERATE, reply.kind, 0) >>,
        outbound |-> << Request(user_input, languages), Request(user_input, languages) >>]
  ELSE [result |-> reply.payload, elems |-> << >>,
        outbound |-> << Request(user_input, languages) >>]

\* generate_word(user_input, languages): result is the returned value, elems
\* what it displays, outbound the calls it sends to the external service
generate_word(user_input, languages, reply) ==
  IF reply.kind \in InvokeExceptions
  THEN [result |-> None, elems |-> << El("error", MSG_GENERATE, reply.kind, 0) >>,
        outbound |-> << Request(user_input, languages) >>]
  ELSE [result |-> reply.payload, elems |-> << >>,
        outbound |-> << Request(user_input, languages) >>]

\* ------------------------------------------------------ rendering a result
\* Python truthiness of the value returned by generate_word
truthy(result) == ~result.isNone /\ result.keys # {}

\* mutation: enumerate(result['examples']) without the start argument
render_examples_from_zero(examples) ==
  [i \in 1..Len(examples) |-> El("write", examples[i], "", i - 1)]

\* for i, example in enumerate(result['examples'], 1): st.write(f"{i}. {example}")
render_examples(examples) ==
  [i \in 1..Len(examples) |-> El("write", examples[i], "", i)]

\* the body of `if result:`; uncaught names the exception that ends the run
render_result(result) ==
  IF ~truthy(result) THEN [elems |-> << >>, uncaught |-> ""]
  ELSE IF ~({"word", "pronunciation"} \subseteq result.keys)
  THEN [elems |-> << >>, uncaught |-> "KeyError"]
  ELSE LET e1 == << El("markdown", result.word, result.pronunciation, 0) >> IN
  IF "definition" \notin result.keys THEN [elems |-> e1, uncaught |-> "KeyError"]
  ELSE LET e2 == e1 \o << El("write_bold", result.definition, "", 0) >> IN
  IF "etymology" \notin result.keys THEN [elems |-> e2, uncaught |-> "KeyError"]
  ELSE LET e3 == e2 \o << El("caption", "*Etymology*: ", result.etymology, 0) >> IN
  IF "examples" \notin result.keys THEN [elems |-> e3, uncaught |-> "KeyError"]
  ELSE IF result.examples = << >> THEN [elems |-> e3, uncaught |-> ""]
  ELSE [elems |-> e3 \o << El("divider", "", "", 0),
                          El("write_bold", "Examples in use:", "", 0) >>
                     \o render_examples(result.examples),
        uncaught |-> ""]

\* --------------------------------------------------------------- main()
\* mutation: the error is shown but st.stop() is not called
check_credential_no_stop(api_key) ==
  IF api_key = ""
  THEN [elems |-> << El("error", MSG_NO_KEY, "", 0) >>, stop |-> FALSE]
  ELSE [elems |-> << >>, stop |-> FALSE]

\* if not st.session_state['OPENAI_API_KEY']: st.error(...); st.stop()
check_credential(api_key) ==
  IF api_key = ""
  THEN [elems |-> << El("error", MSG_NO_KEY, "", 0) >>, stop |-> TRUE]
  ELSE [elems |-> << >>, stop |-> FALSE]

\* mutation: the description is tested without strip()
emotion_missing_unstripped(user_input) == user_input = << >>

\* not user_input.strip()
emotion_missing(user_input) == strip(user_input) = << >>

\* the body of `if st.button("Generate Word"):` (the spinner is transient and
\* leaves no element behind)
on_submit(selected_langs, user_input, reply) ==
  IF emotion_missing(user_input)
  THEN [elems |-> << El("error", MSG_NO_EMOTION, "", 0) >>, result |-> None,
        outbound |-> << >>, reply |-> NoReply, uncaught |-> ""]
  ELSE IF selected_langs = << >>
  THEN [elems |-> << El("error", MSG_NO_LANGUAGE, "", 0) >>, result |-> None,
        outbound |-> << >>, reply |-> NoReply, uncaught |-> ""]
  ELSE LET g == generate_word(user_input, selected_langs, reply)
           r == render_result(g.result)
       IN [elems |-> g.elems \o r.elems, result |-> g.result,
           outbound |-> g.outbound, reply |-> reply, uncaught |-> r.uncaught]

not_submitted ==
  [elems |-> << >>, result |-> None, outbound |-> << >>, reply |-> NoReply,
   uncaught |-> ""]

\* one execution of main(): what the page shows afterwards and what the run
\* did.  An exception nobody catches ends the run where it is raised; Streamlit
\* shows it in place of the rest of the page.
main(api_key, selected_langs, user_input, button, reply) ==
  LET head == << El("title", "Reverse Dictionary of Feelings", "", 0),
                 El("caption", "Describe an abstract emotion and select root languages", "", 0) >>
      cred == check_credential(api_key)
      form == << El("multiselect", "Choose root languages (2-3 recommended):", "", 0) >>
              \o (IF Len(selected_langs) = 1
                  THEN << El("warning", "single language", "", 0) >> ELSE << >>)
              \o << El("text_area", "Describe your feeling:", "", 0),
                    El("button", "Generate Word", "", 0) >>
      sub == IF button THEN on_submit(selected_langs, user_input, reply)
             ELSE not_submitted
  IN IF cred.stop
     THEN [rendered |-> head \o cred.elems, options |-> << >>, result |-> None,
           outbound |-> << >>, reply |-> NoReply, uncaught |-> ""]
     ELSE [rendered |-> head \o cred.elems \o form \o sub.elems
                        \o (IF sub.uncaught = ""
                            THEN << El("expander", "Example Feelings to Try", "", 0) >>
                            ELSE << El("exception", sub.uncaught, "", 0) >>),
           options |-> all_languages, result |-> sub.result,
           outbound |-> sub.outbound, reply |-> sub.reply, uncaught |-> sub.uncaught]

\* ------------------------------------------------------ get_suggested_pairs
\* mutation: only the first member of a pair is compared
suggest_step_first_member(lang, entry, acc) ==
  IF lang = entry.pair[1]
  THEN Append(acc, << entry.pair[2], entry.description >>)
  ELSE acc

\* one iteration of `for pair, description in COMPLEMENTARY_PAIRS.items():`
suggest_step(lang, entry, acc) ==
  IF lang = entry.pair[1] \/ lang = entry.pair[2]
  THEN Append(acc, << IF lang = entry.pair[1] THEN entry.pair[2] ELSE entry.pair[1],
                      entry.description >>)
  ELSE acc

\* ------------------------------------------------------------------- state
VARIABLES
  secrets,         \* st.secrets.get('OPENAI_API_KEY', ''), fixed for the process
  session_state,   \* st.session_state: whether the key is set, and its value
  selected_langs,  \* value of the multiselect
  user_input,      \* value of the text area, a sequence of characters
  button,          \* st.button(...): True in the run its click triggered
  options,         \* the options the multiselect offers in this run
  rendered,        \* the elements on the page after this run
  result,          \* the value generate_word returned in this run
  reply,           \* what chain.invoke did in this run
  outbound,        \* the calls sent to the external service in this run
  repeated,        \* this run sent the same request as the run before it
  uncaught,        \* exception that ended this run, "" if none
  selected_lang,   \* get_suggested_pairs: its argument
  pair_index,      \* get_suggested_pairs: entries the loop has consumed
  suggestions,     \* get_suggested_pairs: the local list
  returned         \* get_suggested_pairs: it has returned suggestions

app_vars == << secrets, session_state, selected_langs, user_input, button, options,
               rendered, result, reply, outbound, repeated, uncaught >>
pair_vars == << selected_lang, pair_index, suggestions, returned >>
vars == << secrets, session_state, selected_langs, user_input, button, options,
           rendered, result, reply, outbound, repeated, uncaught,
           selected_lang, pair_index, suggestions, returned >>

\* characters of a description: a whitespace character and a letter
Chars == {" ", "a"}

RECURSIVE seqs_upto(_, _)
seqs_upto(S, n) ==
  IF n = 0 THEN { << >> }
  ELSE LET shorter == seqs_upto(S, n - 1)
       IN shorter \cup { Append(t, c) : t \in shorter, c \in S }

Texts == seqs_upto(Chars, MaxLen)

\* credentials the deployment may be configured with
Secrets == {"", "sk-valid", "sk-revoked"}

app_Init ==
  /\ secrets \in Secrets
  /\ session_state = [present |-> FALSE, OPENAI_API_KEY |-> ""]
  /\ selected_langs = << >>
  /\ user_input = << >>
  /\ button = FALSE
  /\ options = << >>
  /\ rendered = << >>
  /\ result = None
  /\ reply = NoReply
  /\ outbound = << >>
  /\ repeated = FALSE
  /\ uncaught = ""

pair_Idle ==
  /\ selected_lang = ""
  /\ pair_index = 0
  /\ suggestions = << >>
  /\ returned = FALSE

Init == app_Init /\ pair_Idle

\* lines 9-10: the key is copied from the secrets once per session
bootstrap(state) ==
  IF ~state.present THEN [present |-> TRUE, OPENAI_API_KEY |-> secrets] ELSE state

\* one run of the script with the given widget values
Run(langs, text, clicked, r) ==
  \E st \in { bootstrap(session_state) } :
  \E m \in { main(st.OPENAI_API_KEY, langs, text, clicked, r) } :
     /\ session_state' = st
     /\ selected_langs' = langs
     /\ user_input' = text
     /\ button' = clicked
     /\ options' = m.options
     /\ rendered' = m.rendered
     /\ result' = m.result
     /\ reply' = m.reply
     /\ outbound' = m.outbound
     /\ repeated' = (outbound # << >> /\ m.outbound # << >>
                      /\ m.outbound[1] = outbound[Len(outbound)])
     /\ uncaught' = m.uncaught
     /\ UNCHANGED << secrets, selected_lang, pair_index, suggestions, returned >>

shown(kind) == \E i \in 1..Len(rendered) : rendered[i].kind = kind

\* the page is opened, or rerun without touching a widget
Load == Run(selected_langs, user_input, FALSE, NoReply)

\* the user adds a language in the multiselect
ChooseLanguage ==
  /\ shown("multiselect")
  /\ \E i \in 1..Len(options) :
       /\ i <= MaxPick
       /\ \A j \in 1..Len(selected_langs) : selected_langs[j] # options[i]
       /\ Run(Append(selected_langs, options[i]), user_input, FALSE, NoReply)

\* the user removes a language from the multiselect
RemoveLanguage ==
  /\ shown("multiselect")
  /\ \E i \in 1..Len(selected_langs) :
       Run(SubSeq(selected_langs, 1, i - 1)
             \o SubSeq(selected_langs, i + 1, Len(selected_langs)),
           user_input, FALSE, NoReply)

\* the user changes the text of the description
EditDescription ==
  /\ shown("text_area")
  /\ \E t \in Texts : t # user_input /\ Run(selected_langs, t, FALSE, NoReply)

\* the user presses "Generate Word"
ClickGenerate ==
  /\ shown("button")
  /\ \E r \in Replies(bootstrap(session_state).OPENAI_API_KEY) :
       Run(selected_langs, user_input, TRUE, r)

Next == Load \/ ChooseLanguage \/ RemoveLanguage \/ EditDescription \/ ClickGenerate

Spec == Init /\ [][Next]_vars

\* ------------------------------------- get_suggested_pairs as a computation
\* arguments tried: every catalogue language, every name used in a pair, and
\* a name that is in neither table
PairMembers ==
  { COMPLEMENTARY_PAIRS[i].pair[1] : i \in 1..Len(COMPLEMENTARY_PAIRS) }
    \cup { COMPLEMENTARY_PAIRS[i].pair[2] : i \in 1..Len(COMPLEMENTARY_PAIRS) }

PairArguments ==
  { all_languages[i] : i \in 1..Len(all_languages) } \cup PairMembers \cup {"Esperanto"}

pair_Init ==
  /\ secrets = ""
  /\ session_state = [present |-> FALSE, OPENAI_API_KEY |-> ""]
  /\ selected_langs = << >>
  /\ user_input = << >>
  /\ button = FALSE
  /\ options = << >>
  /\ rendered = << >>
  /\ result = None
  /\ reply = NoReply
  /\ outbound = << >>
  /\ repeated = FALSE
  /\ uncaught = ""
  /\ selected_lang \in PairArguments
  /\ pair_index = 0
  /\ suggestions = << >>
  /\ returned = FALSE

\* the loop of get_suggested_pairs takes the next entry of the table
SuggestIterate ==
  /\ ~returned
  /\ pair_index < Len(COMPLEMENTARY_PAIRS)
  /\ pair_index' = pair_index + 1
  /\ suggestions' = suggest_step(selected_lang, COMPLEMENTARY_PAIRS[pair_index + 1],
                                 suggestions)
  /\ UNCHANGED << selected_lang, returned >>
  /\ UNCHANGED app_vars

\* return suggestions
SuggestReturn ==
  /\ ~returned
  /\ pair_index = Len(COMPLEMENTARY_PAIRS)
  /\ returned' = TRUE
  /\ UNCHANGED << selected_lang, pair_index, suggestions >>
  /\ UNCHANGED app_vars

PairNext == SuggestIterate \/ SuggestReturn

SpecPairs == pair_Init /\ [][PairNext]_vars

\* ============================================================== properties
\* a run of the script has completed
ran == rendered # << >>

\* the error messages on the page
errors == SelectSeq(rendered, LAMBDA e : e.kind = "error")

\* the description is empty or consists of whitespace only
blank(text) == \A i \in 1..Len(text) : text[i] \in {" ", "\t", "\n"}

\* what the page shows below the submit button, without the closing element
\* of the run (the expander, or the exception that ended the run)
panel ==
  LET b == CHOOSE i \in 1..Len(rendered) : rendered[i].kind = "button"
  IN SubSeq(rendered, b + 1, Len(rendered) - 1)

\* the WordResult fields the page displays
ShownFields ==
  (IF \E i \in 1..Len(rendered) : rendered[i].kind = "markdown"
   THEN {"word", "pronunciation"} ELSE {})
  \cup (IF \E i \in 1..Len(rendered) :
             rendered[i].kind = "write_bold" /\ rendered[i].a # "Examples in use:"
        THEN {"definition"} ELSE {})
  \cup (IF \E i \in 1..Len(rendered) :
             rendered[i].kind = "caption" /\ rendered[i].a = "*Etymology*: "
        THEN {"etymology"} ELSE {})
  \cup (IF \E i \in 1..Len(rendered) : rendered[i].kind = "write"
        THEN {"examples"} ELSE {})

\* C1: a submit whose description is empty or whitespace-only, or whose
\* language selection is empty, sends no call to the external service and
\* shows one of the two input errors.
C1_EmptyInputRejected ==
  (button /\ (blank(user_input) \/ selected_langs = << >>)) =>
    /\ outbound = << >>
    /\ reply = NoReply
    /\ Len(errors) = 1
    /\ errors[1].a \in {MSG_NO_EMOTION, MSG_NO_LANGUAGE}
    /\ (blank(user_input) => errors[1].a = MSG_NO_EMOTION)

C1_Witness ==
  /\ button
  /\ user_input = << " " >>
  /\ selected_langs # << >>
  /\ Len(errors) = 1

\* C2: a reply that parses but lacks `examples`, or whose `examples` is not of
\* length 2, makes generate report an error and return no result.
C2_SchemaViolationReported ==
  (reply.kind = "payload"
     /\ ("examples" \notin reply.payload.keys \/ Len(reply.payload.examples) # 2)) =>
    /\ result = None
    /\ Len(errors) >= 1

\* C3: with an empty credential the run shows exactly one error, shows none of
\* the multiselect, text area and button, ends at the error and sends no call.
C3_MissingCredentialHalts ==
  (ran /\ session_state.OPENAI_API_KEY = "") =>
    /\ \A i \in 1..Len(rendered) :
         rendered[i].kind \notin {"multiselect", "text_area", "button"}
    /\ Len(errors) = 1
    /\ errors[1].a = MSG_NO_KEY
    /\ rendered[Len(rendered)].kind = "error"
    /\ outbound = << >>
    /\ ~button

C3_Witness ==
  /\ ran
  /\ session_state.present
  /\ session_state.OPENAI_API_KEY = ""
  /\ Len(errors) = 1

\* C4: a reply with all five fields and exactly two examples is returned
\* unchanged and displayed as word with pronunciation, definition, etymology
\* and the two examples numbered 1 and 2 in the order of the reply.
C4_SuccessRendered ==
  (reply.kind = "payload" /\ reply.payload.keys = WORD_SCHEMA_required
     /\ Len(reply.payload.examples) = 2) =>
    /\ result = reply.payload
    /\ uncaught = ""
    /\ panel = << El("markdown", reply.payload.word, reply.payload.pronunciation, 0),
                  El("write_bold", reply.payload.definition, "", 0),
                  El("caption", "*Etymology*: ", reply.payload.etymology, 0),
                  El("divider", "", "", 0),
                  El("write_bold", "Examples in use:", "", 0),
                  El("write", reply.payload.examples[1], "", 1),
                  El("write", reply.payload.examples[2], "", 2) >>

C4_Witness ==
  /\ reply.kind = "payload"
  /\ reply.payload.keys = WORD_SCHEMA_required
  /\ Len(reply.payload.examples) = 2
  /\ Len(selected_langs) = 2
  /\ ShownFields = WORD_SCHEMA_required

C6_NoPartialResult ==
  ShownFields \in { {}, WORD_SCHEMA_required }

\* C7: a submit with a non-blank description and a non-empty selection sends
\* exactly one call carrying that request, whether the call fails or not and
\* whether or not the run before sent the same request.
C7_OneCallPerSubmit ==
  (button /\ ~blank(user_input) /\ selected_langs # << >>) =>
    /\ Len(outbound) = 1
    /\ outbound[1] = Request(user_input, selected_langs)
    /\ reply # NoReply

C7_Witness ==
  /\ button
  /\ repeated
  /\ reply.kind = "APIConnectionError"
  /\ Len(outbound) = 1

\* the entries of the compatibility table whose pair contains lang
entries_with(lang) ==
  SelectSeq(COMPLEMENTARY_PAIRS, LAMBDA e : lang \in {e.pair[1], e.pair[2]})

\* C8: get_suggested_pairs(L) returns, in table order, one (other member,
\* description) entry for every pair that contains L and nothing else; it is
\* empty for a language that is in no pair.
C8_SuggestedPairs ==
  returned =>
    /\ Len(suggestions) = Len(entries_with(selected_lang))
    /\ \A j \in 1..Len(suggestions) :
         /\ suggestions[j][2] = entries_with(selected_lang)[j].description
         /\ {suggestions[j][1], selected_lang}
              = {entries_with(selected_lang)[j].pair[1], entries_with(selected_lang)[j].pair[2]}
    /\ (selected_lang \notin PairMembers => suggestions = << >>)

C8_Witness ==
  /\ returned
  /\ selected_lang = "Latin"
  /\ suggestions = << << "Japanese", COMPLEMENTARY_PAIRS[1].description >>,
                      << "German", COMPLEMENTARY_PAIRS[7].description >> >>

\* C9: both members of every pair of the compatibility table (here: of every
\* entry the loop has visited) are languages of the catalogue.
C9_PairsInCatalog ==
  \A i \in 1..pair_index :
    /\ \E k \in 1..Len(all_languages) : all_languages[k] = COMPLEMENTARY_PAIRS[i].pair[1]
    /\ \E k \in 1..Len(all_languages) : all_languages[k] = COMPLEMENTARY_PAIRS[i].pair[2]

\* the positions of the catalogue: category c, place j in the category
CatalogPlaces ==
  UNION { { << c, j >> : j \in 1..Len(LANGUAGE_OPTIONS[c].langs) } :
          c \in 1..Len(LANGUAGE_OPTIONS) }

\* C10: every language is in exactly one category, and the options of the
\* multiselect are the catalogue's languages, each exactly once, in category
\* order and then in-category order.
C10_SelectionListIsCatalog ==
  (\E i \in 1..Len(rendered) : rendered[i].kind = "multiselect") =>
    /\ Len(options) = Cardinality(CatalogPlaces)
    /\ \A i \in 1..Len(options) :
         Cardinality({ p \in CatalogPlaces :
                         LANGUAGE_OPTIONS[p[1]].langs[p[2]] = options[i] }) = 1
    /\ \A p \in CatalogPlaces :
         Cardinality({ i \in 1..Len(options) :
                         options[i] = LANGUAGE_OPTIONS[p[1]].langs[p[2]] }) = 1
    /\ \A p, q \in CatalogPlaces :
         (p[1] < q[1] \/ (p[1] = q[1] /\ p[2] < q[2])) =>
           \E i, k \in 1..Len(options) :
             /\ i < k
             /\ options[i] = LANGUAGE_OPTIONS[p[1]].langs[p[2]]
             /\ options[k] = LANGUAGE_OPTIONS[q[1]].langs[q[2]]

C10_Witness ==
  /\ \E i \in 1..Len(rendered) : rendered[i].kind = "multiselect"
  /\ Len(options) = 12
  /\ options[1] = "Latin"
  /\ options[12] = "Klingon"
  /\ selected_langs # << >>

====
